---- MODULE Spec2Model ----
(***************************************************************************)
(* cat-gpt: a Slack bot that forwards a conversation to the OpenAI chat    *)
(* completion endpoint and streams the answer back into a placeholder      *)
(* message.  The model covers one processing cycle of handle_slack_event   *)
(* with the stream read either by the loop written inline in               *)
(* slack_post_handler/handle_request.rs (variant "inline") or by           *)
(* openai/handle_stream_response.rs (variant "module").                    *)
(*                                                                         *)
(* Strings are sequences of symbols.  A symbol is one byte of the wire     *)
(* format, except that fixed multi-byte tokens that are never inspected    *)
(* piecewise are kept as short runs:                                       *)
(*   "d" ":"   the two halves of the frame prefix "data: "                  *)
(*   "[" "]"   the two halves of the end marker "[DONE]"                    *)
(*   "{"       the JSON text up to and including the opening quote of the   *)
(*             delta's content string; "}" the text closing it              *)
(*   "N"       a complete JSON body whose first choice carries no delta     *)
(*   "LF"      the newline byte, " " the space byte                         *)
(*   "M1" "M2" the lead and the continuation byte of a two-byte character   *)
(*   "FFFD"    the replacement character written by from_utf8_lossy         *)
(*   "L"       the text ":loading:"                                         *)
(*   anything else: one ASCII character of content                          *)
(***************************************************************************)
EXTENDS Integers, Sequences, FiniteSets, TLC

\* ------------------------------------------------------------------------
\* Bounds of the model
\* ------------------------------------------------------------------------

\* The transport cuts a response body into at most this many chunks: in the
\* specification of the stream loop, and in that of the whole cycle.
MaxChunks == 3
MaxCycleChunks == 2
MaxEdits == 3

\* ------------------------------------------------------------------------
\* Program constants
\* ------------------------------------------------------------------------

LF == "LF"
DataPrefix == <<"d", ":">>
DoneMarker == <<"[", "]">>
Whitespace == {" ", LF}

LOADING_EMOJI == <<"L">>
NO_CONTEXTS_MESSAGE == <<"NO_CONTEXTS_MESSAGE">>
ERROR_FROM_OPEN_AI_MESSAGE == <<"ERROR_FROM_OPEN_AI_MESSAGE">>
USAGE_LIMIT_MESSAGE == <<"USAGE_LIMIT_MESSAGE">>
INVALID_IMAGE_FORMAT == <<"INVALID_IMAGE_FORMAT">>

\* Duration::from_millis(1000), the throttle of the live edit.
ThrottleMs == 1000
\* Duration::from_secs(1), by which last_update starts in the past.
InitialLeadMs == 1000

\* ------------------------------------------------------------------------
\* Sequence helpers (the std library calls the code makes)
\* ------------------------------------------------------------------------

Drop(s, n) == SubSeq(s, n + 1, Len(s))

Take(s, n) == SubSeq(s, 1, n)

\* str::starts_with
StartsWith(s, p) == Len(s) >= Len(p) /\ Take(s, Len(p)) = p

\* str::ends_with
EndsWith(s, p) == Len(s) >= Len(p) /\ Drop(s, Len(s) - Len(p)) = p

\* slice::split(|&c| c == b'\n'): n separators give n + 1 pieces.
RECURSIVE SplitLines(_)
SplitLines(s) ==
  IF \A i \in 1..Len(s) : s[i] # LF
  THEN <<s>>
  ELSE LET i == CHOOSE j \in 1..Len(s) :
                  s[j] = LF /\ \A k \in 1..(j - 1) : s[k] # LF
       IN <<Take(s, i - 1)>> \o SplitLines(Drop(s, i))

\* str::split("\n\n"): the leftmost non-overlapping matches separate the pieces.
RECURSIVE SplitBlank(_)
SplitBlank(s) ==
  LET At(j) == j < Len(s) /\ s[j] = LF /\ s[j + 1] = LF
  IN IF \A j \in 1..Len(s) : ~At(j)
     THEN <<s>>
     ELSE LET i == CHOOSE j \in 1..Len(s) :
                     At(j) /\ \A k \in 1..(j - 1) : ~At(k)
          IN <<Take(s, i - 1)>> \o SplitBlank(Drop(s, i + 1))

\* str::trim
RECURSIVE TrimStart(_)
TrimStart(s) ==
  IF s # <<>> /\ s[1] \in Whitespace THEN TrimStart(Tail(s)) ELSE s

RECURSIVE TrimEnd(_)
TrimEnd(s) ==
  IF s # <<>> /\ s[Len(s)] \in Whitespace
  THEN TrimEnd(Take(s, Len(s) - 1))
  ELSE s

Trim(s) == TrimEnd(TrimStart(s))

\* std::str::from_utf8(..).is_ok(): every lead byte is followed by its
\* continuation byte and no continuation byte stands alone.
RECURSIVE Utf8Valid(_)
Utf8Valid(s) ==
  IF s = <<>> THEN TRUE
  ELSE IF s[1] = "M1" THEN Len(s) >= 2 /\ s[2] = "M2" /\ Utf8Valid(Drop(s, 2))
  ELSE IF s[1] = "M2" THEN FALSE
  ELSE Utf8Valid(Tail(s))

\* String::from_utf8_lossy: every ill-formed byte becomes U+FFFD.
RECURSIVE Utf8Lossy(_)
Utf8Lossy(s) ==
  IF s = <<>> THEN <<>>
  ELSE IF s[1] = "M1" /\ Len(s) >= 2 /\ s[2] = "M2"
       THEN <<"M1", "M2">> \o Utf8Lossy(Drop(s, 2))
  ELSE IF s[1] \in {"M1", "M2"} THEN <<"FFFD">> \o Utf8Lossy(Tail(s))
  ELSE <<s[1]>> \o Utf8Lossy(Tail(s))

\* ------------------------------------------------------------------------
\* serde_json::from_str::<ChatGptResBody> and the delta's content
\* ------------------------------------------------------------------------

\* Whether the payload deserializes: JSON whitespace around the value is
\* accepted, the content string holds no raw newline and no structural text.
JsonOk(p) ==
  LET t == Trim(p)
  IN \/ t = <<"N">>
     \/ /\ Len(t) >= 2
        /\ t[1] = "{"
        /\ t[Len(t)] = "}"
        /\ \A i \in 2..(Len(t) - 1) : t[i] \notin {"{", "}", "N", LF}

\* choices[0].delta is Some
JsonHasDelta(p) == Trim(p) # <<"N">>

\* ChatGptResBody::get_content: the delta's content, "" without a delta.
get_content(p) ==
  LET t == Trim(p)
  IN IF t = <<"N">> THEN <<>> ELSE SubSeq(t, 2, Len(t) - 1)

\* ------------------------------------------------------------------------
\* The stream state: the locals of the stream loop (text, last_post_text,
\* last_update, partial_str, partial_bytes), the chat.update calls made so
\* far (edits), whether the line loop of the current chunk was left by
\* break (brk), and the error a `?` propagated (err, "" for none).
\* ------------------------------------------------------------------------

\* Variant of UpdateMessage that sends an empty text too.
UpdateMessageAlways(st, t, now, kind, ok) ==
  [st EXCEPT
     !.edits = Append(@, [text |-> t, at |-> now, kind |-> kind, ok |-> ok]),
     !.err = IF ok THEN @ ELSE "SlackUpdateError"]

\* ApiClient::update_message: no call for an empty text; a call Slack does
\* not answer ok is an error.  `kind` and `at` annotate the call.
UpdateMessage(st, t, now, kind, ok) ==
  IF t = <<>>
  THEN st
  ELSE [st EXCEPT
          !.edits = Append(@, [text |-> t, at |-> now, kind |-> kind, ok |-> ok]),
          !.err = IF ok THEN @ ELSE "SlackUpdateError"]

\* last_update.elapsed() > Duration::from_millis(1000)
ThrottleOpen(st, now) == now - st.last_update > ThrottleMs

\* openai/handle_stream_response.rs, update_message_every_second
update_message_every_second(st, p, now, ok) ==
  LET content == get_content(p)
  IN IF content = <<>>
     THEN st
     ELSE LET s1 == [st EXCEPT !.text = @ \o content]
          IN IF ThrottleOpen(s1, now)
             THEN UpdateMessage([s1 EXCEPT !.last_update = now,
                                           !.last_post_text = s1.text],
                                s1.text, now, "throttled", ok)
             ELSE s1

\* openai/handle_stream_response.rs, update_message_if_complite_string
update_message_if_complite_string(st, now, ok) ==
  IF StartsWith(st.partial_str, DataPrefix)
  THEN LET ps == Drop(st.partial_str, Len(DataPrefix))
       IN IF ps = DoneMarker
          THEN [st EXCEPT !.brk = TRUE]
          ELSE IF JsonOk(ps)
               THEN LET s1 == update_message_every_second(st, ps, now, ok)
                    IN IF s1.err # ""
                       THEN s1
                       ELSE [s1 EXCEPT !.partial_str = <<>>]
               ELSE st
  ELSE st

\* openai/handle_stream_response.rs, update_message_if_complite_bytes
update_message_if_complite_bytes(st, now, ok) ==
  IF Utf8Valid(st.partial_bytes)
  THEN IF StartsWith(st.partial_bytes, DataPrefix)
       THEN LET ps == Drop(st.partial_bytes, Len(DataPrefix))
            IN IF ps = DoneMarker
               THEN [st EXCEPT !.brk = TRUE]
               ELSE IF JsonOk(ps)
                    THEN LET s1 == update_message_every_second(st, ps, now, ok)
                         IN IF s1.err # ""
                            THEN s1
                            ELSE [s1 EXCEPT !.partial_bytes = <<>>]
                    ELSE st
       ELSE st
  ELSE st

\* openai/handle_stream_response.rs, the body of `for line in chunk.split(..)`
ModuleLine(st, line, now, ok) ==
  IF Utf8Valid(line)
  THEN IF StartsWith(line, DataPrefix)
       THEN LET p == Drop(line, Len(DataPrefix))
            IN IF p = DoneMarker
               THEN [st EXCEPT !.brk = TRUE]
               ELSE IF JsonOk(p)
                    THEN update_message_every_second(st, p, now, ok)
                    ELSE [st EXCEPT !.partial_str = DataPrefix \o p]
       ELSE update_message_if_complite_string(
              [st EXCEPT !.partial_str = @ \o line], now, ok)
  ELSE update_message_if_complite_bytes(
         [st EXCEPT !.partial_bytes = @ \o line], now, ok)

\* slack_post_handler/handle_request.rs, the push of a non-empty content and
\* its throttled edit (written twice in the inline loop).
InlinePush(st, content, now, ok) ==
  IF content = <<>>
  THEN st
  ELSE LET stripped == IF EndsWith(st.text, LOADING_EMOJI)
                       THEN Take(st.text, Len(st.text) - Len(LOADING_EMOJI))
                       ELSE st.text
           s1 == [st EXCEPT !.text = stripped \o content]
       IN IF ThrottleOpen(s1, now)
          THEN UpdateMessage([s1 EXCEPT !.last_update = now,
                                        !.last_post_text = s1.text],
                             s1.text, now, "throttled", ok)
          ELSE s1

\* slack_post_handler/handle_request.rs, the body of
\* `for p in chunk_str.trim().split("\n\n")`
InlinePiece(st, piece, now, ok) ==
  IF StartsWith(piece, DataPrefix)
  THEN LET p == Drop(piece, Len(DataPrefix))
       IN IF p = DoneMarker
          THEN [st EXCEPT !.brk = TRUE]
          ELSE IF ~JsonOk(p)
               THEN [st EXCEPT !.partial_str = DataPrefix \o p]
               ELSE IF ~JsonHasDelta(p)
                    THEN st
                    ELSE InlinePush(st, get_content(p), now, ok)
  ELSE LET s0 == [st EXCEPT !.partial_str = @ \o piece]
       IN IF StartsWith(s0.partial_str, DataPrefix)
          THEN LET ps == Drop(s0.partial_str, Len(DataPrefix))
               IN IF ps = DoneMarker
                  THEN [s0 EXCEPT !.brk = TRUE]
                  ELSE IF ~JsonOk(ps)
                       THEN s0
                       ELSE IF ~JsonHasDelta(ps)
                            THEN s0
                            ELSE LET s1 == InlinePush(s0, get_content(ps), now, ok)
                                 IN IF s1.err # ""
                                    THEN s1
                                    ELSE [s1 EXCEPT !.partial_str = <<>>]
          ELSE s0

\* The for loop over the pieces of one chunk: it ends at the last piece, at
\* a break, and at an error that `?` propagates.
RECURSIVE ModuleLines(_, _, _, _)
ModuleLines(st, lines, now, ok) ==
  IF lines = <<>> \/ st.brk \/ st.err # ""
  THEN st
  ELSE ModuleLines(ModuleLine(st, Head(lines), now, ok), Tail(lines), now, ok)

RECURSIVE InlinePieces(_, _, _, _)
InlinePieces(st, pieces, now, ok) ==
  IF pieces = <<>> \/ st.brk \/ st.err # ""
  THEN st
  ELSE InlinePieces(InlinePiece(st, Head(pieces), now, ok), Tail(pieces), now, ok)

\* One `Ok(chunk)` arm of the while loop.
ModuleChunk(st, chunk, now, ok) ==
  ModuleLines([st EXCEPT !.brk = FALSE], SplitLines(chunk), now, ok)

InlineChunk(st, chunk, now, ok) ==
  InlinePieces([st EXCEPT !.brk = FALSE], SplitBlank(Trim(Utf8Lossy(chunk))), now, ok)

\* The statements after the while loop.
ModuleFinal(st, now, ok) ==
  UpdateMessage(st,
                IF st.text = <<>> THEN ERROR_FROM_OPEN_AI_MESSAGE ELSE st.text,
                now,
                IF st.text = <<>> THEN "notice" ELSE "final",
                ok)

\* Variant of InlineFinal without the branch for an empty text.
InlineFinalNoNotice(st, now, ok) ==
  IF st.last_post_text # st.text
  THEN UpdateMessage(st, st.text, now, "final", ok)
  ELSE st

InlineFinal(st, now, ok) ==
  IF st.last_post_text # st.text
  THEN UpdateMessage(st, st.text, now, "final", ok)
  ELSE IF st.text = <<>>
       THEN UpdateMessage(st, ERROR_FROM_OPEN_AI_MESSAGE, now, "notice", ok)
       ELSE st

\* The locals as the loop finds them: last_update one second in the past.
\* Variant of InitStream whose last_update is the time of creation.
InitStreamNow(now) ==
  [text |-> <<>>, last_post_text |-> <<>>, last_update |-> now,
   partial_str |-> <<>>, partial_bytes |-> <<>>,
   edits |-> <<>>, brk |-> FALSE, err |-> ""]

InitStream(now) ==
  [text |-> <<>>, last_post_text |-> <<>>, last_update |-> now - InitialLeadMs,
   partial_str |-> <<>>, partial_bytes |-> <<>>,
   edits |-> <<>>, brk |-> FALSE, err |-> ""]

\* ------------------------------------------------------------------------
\* Slack messages (slack_post_handler/slack_message.rs).  An Option is a
\* sequence of length 0 (None) or 1 (Some).  A text is a sequence of
\* symbols: "<@" the mention marker, ">" its closing bracket, a user id,
\* "past" the directive keyword, a digit, " ", or a letter.
\* ------------------------------------------------------------------------

None == <<>>
Some(x) == <<x>>
IsSome(o) == o # <<>>

Contains(text, sym) == \E i \in 1..Len(text) : text[i] = sym

\* Variant of is_mention_to that finds every user mentioned.
is_mention_to_anyone(m, user_id) == TRUE

is_mention_to(m, user_id) == Contains(m.text, user_id)

\* Variant of is_mention_to_other that never finds another user mentioned.
is_mention_to_nobody_else(m, bot_id) == FALSE

is_mention_to_other(m, bot_id) == ~is_mention_to(m, bot_id) /\ Contains(m.text, "<@")

is_in_thread(m) == IsSome(m.thread_ts)

\* Variant of is_direct_message that takes every message for a channel's.
is_direct_message_never(m) == FALSE

is_direct_message(m) == m.channel_type = Some("im")

\* Variant of is_from that recognises no sender.
is_from_nobody(m, user_id) == FALSE

is_from(m, user_id) == m.user = user_id

\* Variant of reply_required that does not look at the sender.
reply_required_any_sender(m, bot_id) ==
  /\ m.type_name = "message"
  /\ m.subtype = None \/ (IsSome(m.subtype) /\ m.subtype[1] = "file_share")

\* Variant of reply_required that does not look at the subtype.
reply_required_any_subtype(m, bot_id) ==
  /\ m.type_name = "message"
  /\ ~is_from(m, bot_id)

reply_required(m, bot_id) ==
  LET is_message_type == m.type_name = "message"
      is_file_share_or_no_subtype ==
        m.subtype = None \/ (IsSome(m.subtype) /\ m.subtype[1] = "file_share")
      is_not_from_bot == ~is_from(m, bot_id)
  IN is_message_type /\ is_file_share_or_no_subtype /\ is_not_from_bot

\* Variant of new_message_thread_ts that always starts a thread.
new_message_thread_ts_own(m) == Some(m.ts)

new_message_thread_ts(m) ==
  IF is_in_thread(m) THEN m.thread_ts
  ELSE IF is_direct_message(m) THEN None
  ELSE Some(m.ts)

Digits == {"0", "1", "2", "3", "4", "5", "6", "7", "8", "9"}

DigitValue(c) ==
  CASE c = "0" -> 0 [] c = "1" -> 1 [] c = "2" -> 2 [] c = "3" -> 3
    [] c = "4" -> 4 [] c = "5" -> 5 [] c = "6" -> 6 [] c = "7" -> 7
    [] c = "8" -> 8 [] c = "9" -> 9 [] OTHER -> 0

\* \d of the regex crate matches every Unicode decimal digit; "d3" stands
\* for one that is not ASCII, which parse::<i32> rejects.
UnicodeDigits == {"d3"}
RegexDigits == Digits \cup UnicodeDigits

\* The capture of ^past(\d+): the longest run of digits after a leading
\* "past"; empty when the regex does not match.
RECURSIVE DigitRun(_)
DigitRun(s) ==
  IF s # <<>> /\ s[1] \in RegexDigits THEN <<s[1]>> \o DigitRun(Tail(s)) ELSE <<>>

PastCapture(text) ==
  IF text # <<>> /\ text[1] = "past" THEN DigitRun(Tail(text)) ELSE <<>>

RECURSIVE DecimalValue(_)
DecimalValue(ds) ==
  IF ds = <<>> THEN 0
  ELSE 10 * DecimalValue(Take(ds, Len(ds) - 1)) + DigitValue(ds[Len(ds)])

I32Max == 2147483647

\* The checked multiply-and-add of parse::<i32>: the value of ds fits.
RECURSIVE FitsI32(_)
FitsI32(ds) ==
  \/ ds = <<>>
  \/ /\ FitsI32(Take(ds, Len(ds) - 1))
     /\ DecimalValue(Take(ds, Len(ds) - 1))
          <= (I32Max - DigitValue(ds[Len(ds)])) \div 10

\* past.parse::<i32>() is Ok: ASCII digits only, and the value fits.
ParseOk(ds) ==
  /\ \A i \in 1..Len(ds) : ds[i] \in Digits
  /\ FitsI32(ds)

\* Variant of get_limit that does not clamp the parsed number.
get_limit_unclamped(m, default, max_past) ==
  LET past == PastCapture(m.text)
  IN (IF past = <<>> \/ ~ParseOk(past) THEN default ELSE DecimalValue(past)) + 1

get_limit(m, default, max_past) ==
  LET past == PastCapture(m.text)
      past_num ==
        IF past = <<>> THEN default
        ELSE IF ~ParseOk(past) THEN default
        ELSE LET num == DecimalValue(past)
             IN IF num > max_past THEN max_past
                ELSE IF num < 0 THEN 0
                ELSE num
  IN past_num + 1

\* The end of the match of ^<.+> : the text starts with "<", and the match
\* ends at the last "> " that no newline precedes; 0 when there is none.
MentionEnd(text) ==
  IF text = <<>> \/ text[1] # "<@" THEN 0
  ELSE LET ends == { j \in 2..(Len(text) - 1) :
                       /\ text[j] = ">"
                       /\ text[j + 1] = " "
                       /\ \A i \in 1..j : text[i] # LF }
       IN IF ends = {} THEN 0
          ELSE (CHOOSE j \in ends : \A k \in ends : k <= j) + 1

pure_text(m) ==
  LET result1 == Drop(m.text, MentionEnd(m.text))
      result2 == Trim(IF result1 # <<>> /\ result1[1] = "o1"
                      THEN Tail(result1) ELSE result1)
  IN Drop(result2, IF PastCapture(result2) = <<>> THEN 0
                   ELSE 1 + Len(PastCapture(result2)))

\* ------------------------------------------------------------------------
\* Context resolution and the request body
\* (slack_post_handler/handle_request.rs)
\* ------------------------------------------------------------------------

\* ts.parse::<f64>(): the number a timestamp's digits stand for.
TsValue(ts) == DecimalValue(ts)

\* order_by_ts: Vec::sort_by is stable; ts compared as numbers.
RECURSIVE InsertByTs(_, _)
InsertByTs(sorted, m) ==
  IF sorted = <<>> THEN <<m>>
  ELSE IF TsValue(m.ts) < TsValue(Head(sorted).ts) THEN <<m>> \o sorted
  ELSE <<Head(sorted)>> \o InsertByTs(Tail(sorted), m)

\* Variant of order_by_ts that compares the timestamps as strings.
RECURSIVE LexLess(_, _)
LexLess(a, b) ==
  IF b = <<>> THEN FALSE
  ELSE IF a = <<>> THEN TRUE
  ELSE \/ DigitValue(a[1]) < DigitValue(b[1])
       \/ a[1] = b[1] /\ LexLess(Tail(a), Tail(b))

RECURSIVE InsertLexical(_, _)
InsertLexical(sorted, m) ==
  IF sorted = <<>> THEN <<m>>
  ELSE IF LexLess(m.ts, Head(sorted).ts) THEN <<m>> \o sorted
  ELSE <<Head(sorted)>> \o InsertLexical(Tail(sorted), m)

RECURSIVE order_by_ts_lexical(_)
order_by_ts_lexical(messages) ==
  IF messages = <<>> THEN <<>>
  ELSE InsertLexical(order_by_ts_lexical(Take(messages, Len(messages) - 1)),
                     messages[Len(messages)])

RECURSIVE order_by_ts(_)
order_by_ts(messages) ==
  IF messages = <<>> THEN <<>>
  ELSE InsertByTs(order_by_ts(Take(messages, Len(messages) - 1)),
                  messages[Len(messages)])

\* Variant of delete_old_files that keeps every attachment list.
delete_old_files_none(messages, latest_ts) == messages

delete_old_files(messages, latest_ts) ==
  IF ~(\E i \in 1..Len(messages) : IsSome(messages[i].files))
  THEN messages
  ELSE [i \in 1..Len(messages) |->
          IF messages[i].ts = latest_ts
          THEN messages[i]
          ELSE [messages[i] EXCEPT !.files = None]]

\* Variant of TriggerOnly that always asks for a fetch.
TriggerOnlyNever(limit) == FALSE

\* Only the trigger is wanted: no fetch is needed.
TriggerOnly(limit) == limit < 2

\* Variant of FetchCall that posts a message.
FetchCallAsPost(op, limit) == [op |-> "post_message", limit |-> limit]

\* The call get_replies or get_history with the limit.
FetchCall(op, limit) == [op |-> op, limit |-> limit]

\* fetch_contexts.  `fetched` is what the one Slack call it may issue
\* answers: [ok, messages].  The result names the calls issued, whether the
\* function returned Ok, and the contexts.
fetch_contexts(trigger, bot_member_id, env, fetched) ==
  LET in_thread == is_in_thread(trigger)
      is_mention_to_bot == is_mention_to(trigger, bot_member_id)
      limit == get_limit(trigger, env.default_past_num, env.max_past_num)
      NoCall(ctx) == [calls |-> <<>>, ok |-> TRUE, contexts |-> ctx]
      Call(op) == FetchCall(op, limit)
      Fetch(op, keep(_)) ==
        IF ~fetched.ok
        THEN [calls |-> <<Call(op)>>, ok |-> FALSE, contexts |-> <<>>]
        ELSE [calls |-> <<Call(op)>>, ok |-> TRUE,
              contexts |-> IF keep(fetched.messages) THEN fetched.messages ELSE <<>>]
      Always(ms) == TRUE
      BotInvolved(ms) ==
        is_mention_to_bot \/ \E i \in 1..Len(ms) : is_from(ms[i], bot_member_id)
  IN IF TriggerOnly(limit) THEN NoCall(<<trigger>>)
     ELSE IF is_direct_message(trigger)
          THEN IF in_thread
               THEN Fetch("get_replies", Always)
               ELSE Fetch("get_history", Always)
     ELSE IF ~in_thread /\ is_mention_to_bot THEN NoCall(<<trigger>>)
     ELSE IF in_thread
          THEN IF is_mention_to_other(trigger, bot_member_id)
               THEN NoCall(<<>>)
               ELSE Fetch("get_replies", BotInvolved)
     ELSE NoCall(<<>>)

\* ChatGptQuery::new_from_slack_message: the role, and for a message with
\* files one image part per download that succeeded.  `failing` are the
\* private urls whose download fails.
QueryUnit(m, bot_id, failing) ==
  [role |-> IF is_from(m, bot_id) THEN "assistant" ELSE "user",
   ts |-> m.ts,
   text |-> pure_text(m),
   has_parts |-> IsSome(m.files),
   images |-> IF IsSome(m.files)
              THEN SelectSeq(m.files[1], LAMBDA f : f.url_private \notin failing)
              ELSE <<>>]

\* The downloads ChatGptQuery::new_from_slack_messages issues.
RECURSIVE Downloads(_)
Downloads(messages) ==
  IF messages = <<>> THEN <<>>
  ELSE (IF IsSome(Head(messages).files)
        THEN [i \in 1..Len(Head(messages).files[1]) |->
                [op |-> "download", url |-> Head(messages).files[1][i].url_private]]
        ELSE <<>>) \o Downloads(Tail(messages))

\* Variant of RequestMessages that sends the system prompt alone.
RequestMessagesSystemOnly(contexts, trigger, bot_id, failing) ==
  <<[role |-> "system", ts |-> <<>>, text |-> <<"CHAT_GPT_SYSTEM_PROMPT">>,
     has_parts |-> FALSE, images |-> <<>>]>>

\* The messages of the request body: the system prompt, then the units.
RequestMessages(contexts, trigger, bot_id, failing) ==
  LET sorted == order_by_ts(delete_old_files(contexts, trigger.ts))
  IN <<[role |-> "system", ts |-> <<>>, text |-> <<"CHAT_GPT_SYSTEM_PROMPT">>,
        has_parts |-> FALSE, images |-> <<>>]>>
     \o [i \in 1..Len(sorted) |-> QueryUnit(sorted[i], bot_id, failing)]

\* ------------------------------------------------------------------------
\* Inputs: the bot, the messages, the environment, the response bodies
\* ------------------------------------------------------------------------

BotId == "B"

VALID_MIME_TYPES == {"image/png", "image/jpeg", "image/gif", "image/webp"}

Png == [mimetype |-> "image/png", url_private |-> "u1"]
Pdf == [mimetype |-> "application/pdf", url_private |-> "u2"]
Urls == {"u1", "u2"}

\* A direct message outside a thread.
BaseMessage ==
  [text |-> <<"h", "i">>, thread_ts |-> None, type_name |-> "message",
   subtype |-> None, user |-> "U1", channel |-> Some("C1"),
   ts |-> <<"1", "0">>,
   channel_type |-> Some("im"), files |-> None]

InChannel(m) == [m EXCEPT !.channel_type = Some("channel")]

Triggers ==
  { BaseMessage,
    [BaseMessage EXCEPT !.subtype = Some("file_share"), !.files = Some(<<Png>>)],
    [BaseMessage EXCEPT !.subtype = Some("file_share"), !.files = Some(<<Png, Pdf>>)],
    [BaseMessage EXCEPT !.user = BotId],
    [BaseMessage EXCEPT !.subtype = Some("message_changed")],
    [BaseMessage EXCEPT !.type_name = "reaction_added"],
    [BaseMessage EXCEPT !.channel = None],
    [BaseMessage EXCEPT !.thread_ts = Some(<<"3">>)],
    [BaseMessage EXCEPT !.text = <<"past", "0", "h", "i">>],
    InChannel(BaseMessage),
    InChannel([BaseMessage EXCEPT !.text = <<"past", "0", "h", "i">>]),
    InChannel([BaseMessage EXCEPT !.text = <<"<@", "B", ">", " ", "h", "i">>]),
    InChannel([BaseMessage EXCEPT !.thread_ts = Some(<<"3">>)]),
    InChannel([BaseMessage EXCEPT !.thread_ts = Some(<<"3">>),
                                  !.text = <<"<@", "U2", ">", " ", "h", "i">>]) }

\* The deliveries: event callbacks, and one event of another type.
Events ==
  { [type_name |-> "event_callback", event |-> t] : t \in Triggers }
  \cup { [type_name |-> "app_rate_limited", event |-> BaseMessage] }

\* What bodies deserialize to when they hold no event: the registration
\* of the app, with a challenge and no event.
NoEvent == [type_name |-> "url_verification", event |-> BaseMessage]

\* parameters.slack_signing_secret, and the timestamp header.
SigningSecret == "secret"
RequestTimestamp == "1234567890"

\* format!("v0={}", hex(HMAC-SHA256(secret, "v0:{timestamp}:{body}"))): a
\* value that names the key and the base string it was computed from.
Sign(secret, timestamp, body) == <<"v0=", secret, "v0:", timestamp, ":", body>>

\* Variant of validate_signature that accepts every signature.
validate_signature_any(d, slack_signing_secret) == TRUE

\* validate_signature: the X-Slack-Signature header equals the signature
\* expected for the timestamp header and the body.
validate_signature(d, slack_signing_secret) ==
  d.signature[1] = Sign(slack_signing_secret, d.timestamp, d.body)

\* Variant of from_str that deserializes every body.
from_str_any(body) == TRUE

\* serde_json::from_str::<SlackEvent>: whether the body deserializes.
from_str(body) == body \in {"event", "challenge"}

\* The bodies: one holding an event, the registration of the app, and one
\* that is not a SlackEvent.
Bodies == {"event", "challenge", "garbage"}

\* The deliveries: the signature header missing, computed with another
\* key, computed for another body, or right; with and without the
\* x-slack-retry-num header.
Deliveries ==
  { [signature |-> sig, timestamp |-> RequestTimestamp, retry_num |-> r, body |-> b] :
      sig \in {None} \cup { Some(Sign(k, RequestTimestamp, sb)) :
                               k \in {SigningSecret, "other"}, sb \in Bodies },
      r \in {None, Some(1)},
      b \in Bodies }

\* A first delivery of an event, signed by Slack.
SignedEvent ==
  [signature |-> Some(Sign(SigningSecret, RequestTimestamp, "event")),
   timestamp |-> RequestTimestamp, retry_num |-> None, body |-> "event"]

\* default_past_num and max_past_num of the process environment.
Envs == { [default_past_num |-> 1, max_past_num |-> 2] }

\* What conversations.history / conversations.replies may answer for a
\* trigger: an error, or messages in the order Slack lists them.
BotReply == [BaseMessage EXCEPT !.user = BotId, !.ts = <<"9">>, !.text = <<"o", "k">>]
OldUpload == [BaseMessage EXCEPT !.ts = <<"2">>, !.files = Some(<<Png>>)]

FetchOutcomes(trigger) ==
  { [ok |-> FALSE, messages |-> <<>>],
    [ok |-> TRUE, messages |-> <<trigger>>],
    [ok |-> TRUE, messages |-> <<BotReply, trigger>>],
    [ok |-> TRUE, messages |-> <<trigger, OldUpload>>] }

\* Response bodies of the completion endpoint.
Frame(content) == DataPrefix \o <<"{">> \o content \o <<"}", LF, LF>>
DoneFrame == DataPrefix \o DoneMarker \o <<LF, LF>>

HelloStream == Frame(<<"H", "e", "l">>) \o Frame(<<"l", "o">>) \o DoneFrame
MultiByteStream == Frame(<<"a", " ", "M1", "M2", "b">>) \o DoneFrame
EmptyStream == Frame(<<>>) \o DoneFrame
AfterDoneStream == Frame(<<"a">>) \o DoneFrame \o Frame(<<"b">>)
TruncatedStream == Frame(<<"a">>) \o Frame(<<"b">>)
LoadingStream == Frame(LOADING_EMOJI) \o Frame(LOADING_EMOJI) \o DoneFrame
LoadingThenTextStream == Frame(LOADING_EMOJI) \o Frame(<<"a">>) \o DoneFrame

Streams == { HelloStream, MultiByteStream, EmptyStream, AfterDoneStream,
             TruncatedStream, LoadingStream, LoadingThenTextStream }

CycleStreams == { Frame(<<"a">>) \o DoneFrame, DoneFrame }

\* A stream as the endpoint is documented to send it: text frames, then
\* the end marker, and nothing after it.
WellFormedStreams ==
  { HelloStream, MultiByteStream, EmptyStream, LoadingStream } \cup CycleStreams

\* The lengths a chunk may have.
AnyCut == 1..Len(HelloStream)

\* The cuts that fall inside the second frame of HelloStream, between two
\* bytes of its prefix and payload.
HelloCuts ==
  (Len(Frame(<<"H", "e", "l">>)) + 1)
    ..(Len(Frame(<<"H", "e", "l">>)) + Len(Frame(<<"l", "o">>)) - 3)

Responses ==
  { [status |-> 200, body |-> b] : b \in CycleStreams }
  \cup { [status |-> 429, body |-> <<>>],
         [status |-> 400, body |-> <<"invalid_image_format">>],
         [status |-> 400, body |-> <<"bad_request">>],
         [status |-> 400, body |-> <<"read_error">>],
         [status |-> 500, body |-> <<"server_error">>],
         [status |-> 0, body |-> <<"send_error">>] }

\* Milliseconds that pass while the loop waits for the next chunk; 1 stands
\* for the shortest wait the clock resolves.
Delays == {1, 500, 1001}
CycleDelays == {1, 1001}

\* ------------------------------------------------------------------------
\* State
\* ------------------------------------------------------------------------

VARIABLES
  variant,   \* which stream loop the cycle runs: "inline" or "module"
  event,     \* the SlackEvent delivered
  env,       \* the environment variables
  pc,        \* where handle_slack_event stands
  outcome,   \* what handle_slack_event returned: "" while it runs
  calls,     \* Slack and OpenAI calls other than chat.update, in order
  posted,    \* whether chat.postMessage created the placeholder
  contexts,  \* what fetch_contexts returned
  request,   \* the messages of the request body
  stream,    \* the response body the endpoint sends
  rest,      \* the bytes of it not yet delivered
  nchunks,   \* chunks delivered so far
  now,       \* the monotonic clock, in milliseconds
  ss,        \* the stream state (StreamState)
  errored,   \* whether the stream yielded a read error
  doneSeen,  \* whether a frame holding the end marker was processed
  bot,       \* parameters.bot_member_id
  fn,        \* the classifier function last applied to the trigger, "" for none
  ret,       \* what it returned
  delivery,  \* the HTTP request Slack delivered: headers and body
  response   \* what handle_request answered: "" while it runs

vars == <<variant, event, env, pc, outcome, calls, posted, contexts, request,
          stream, rest, nchunks, now, ss, errored, doneSeen, bot, fn, ret,
          delivery, response>>

trigger == event.event

\* What the placeholder shows: the text of the last edit Slack accepted.
RECURSIVE LastOkText(_, _)
LastOkText(edits, default) ==
  IF edits = <<>> THEN default
  ELSE IF edits[Len(edits)].ok THEN edits[Len(edits)].text
  ELSE LastOkText(Take(edits, Len(edits) - 1), default)

PlaceholderText == LastOkText(ss.edits, LOADING_EMOJI)

Return(result) ==
  /\ pc' = "done"
  /\ outcome' = result

\* ------------------------------------------------------------------------
\* handle_request, up to the call of handle_slack_event
\* ------------------------------------------------------------------------

Answer(r) ==
  /\ pc' = "returned"
  /\ response' = r

\* The signature, the retry header, the body and the challenge, in the
\* order of the code.  A missing signature header panics in expect().
HandleRequest ==
  /\ pc = "delivery"
  /\ IF delivery.signature = None THEN Answer("panic")
     ELSE IF ~validate_signature(delivery, SigningSecret) THEN Answer("NG")
     ELSE IF IsSome(delivery.retry_num) THEN Answer("OK")
     ELSE IF ~from_str(delivery.body) THEN Answer("NG")
     ELSE IF delivery.body = "challenge" THEN Answer("challenge")
     ELSE pc' = "event" /\ response' = response
  /\ UNCHANGED <<delivery, variant, event, env, outcome, calls, posted,
                 contexts, request, stream, rest, nchunks, now, ss, errored,
                 doneSeen, bot, fn, ret>>

\* handle_slack_event has returned, Ok or Err: handle_request answers OK.
Respond ==
  /\ pc = "done"
  /\ Answer("OK")
  /\ UNCHANGED <<delivery, variant, event, env, outcome, calls, posted,
                 contexts, request, stream, rest, nchunks, now, ss, errored,
                 doneSeen, bot, fn, ret>>

\* ------------------------------------------------------------------------
\* handle_slack_event, one action per await
\* ------------------------------------------------------------------------

\* The checks before the first call: the event type, reply_required, the
\* channel.
HandleSlackEvent ==
  /\ pc = "event"
  /\ IF event.type_name # "event_callback" THEN Return("Ok")
     ELSE IF ~reply_required(trigger, bot) THEN Return("Ok")
     ELSE IF trigger.channel = None THEN Return("Ok")
     ELSE pc' = "request" /\ outcome' = outcome
  /\ UNCHANGED <<delivery, response, variant, event, env, calls, posted, contexts, request,
                 stream, rest, nchunks, now, ss, errored, doneSeen, bot, fn, ret>>

\* Variant of contexts_is_empty that takes every result for non-empty.
contexts_is_empty_never(ctx) == FALSE

\* contexts.len() == 0
contexts_is_empty(ctx) == ctx = <<>>

\* create_request_body_for_chat_gpt: the contexts, the notice when there
\* are none, the downloads and the request messages.
CreateRequestBody ==
  /\ pc = "request"
  /\ \E fetched \in FetchOutcomes(trigger), postOk \in BOOLEAN,
        failing \in SUBSET Urls :
       LET r == fetch_contexts(trigger, bot, env, fetched)
           notice == [op |-> "post_message", text |-> NO_CONTEXTS_MESSAGE,
                      thread_ts |-> new_message_thread_ts(trigger), ok |-> postOk]
       IN IF ~r.ok
          THEN /\ calls' = calls \o r.calls
               /\ Return("StatusError")
               /\ UNCHANGED <<contexts, request>>
          ELSE IF contexts_is_empty(r.contexts)
          THEN /\ calls' = (calls \o r.calls) \o <<notice>>
               /\ Return(IF postOk THEN "ContextsEmpty" ELSE "SlackPostError")
               /\ contexts' = r.contexts
               /\ UNCHANGED request
          ELSE /\ contexts' = r.contexts
               /\ request' = RequestMessages(r.contexts, trigger, bot, failing)
               /\ calls' = (calls \o r.calls)
                           \o Downloads(order_by_ts(delete_old_files(r.contexts, trigger.ts)))
               /\ pc' = "post"
               /\ outcome' = outcome
  /\ UNCHANGED <<delivery, response, variant, event, env, posted, stream, rest, nchunks, now, ss,
                 errored, doneSeen, bot, fn, ret>>

\* Variant of has_invalid_mime_type that accepts every file.
has_invalid_mime_type_never(m) == FALSE

\* The loop over the trigger's files: whether one has a mime type outside
\* VALID_MIME_TYPES.
has_invalid_mime_type(m) ==
  /\ IsSome(m.files)
  /\ \E i \in 1..Len(m.files[1]) : m.files[1][i].mimetype \notin VALID_MIME_TYPES

\* post_message(LOADING_EMOJI), then the check of the trigger's mime types.
PostPlaceholder ==
  /\ pc = "post"
  /\ \E postOk \in BOOLEAN, editOk \in BOOLEAN :
       LET post == [op |-> "post_message", text |-> LOADING_EMOJI,
                    thread_ts |-> new_message_thread_ts(trigger), ok |-> postOk]
           invalid == has_invalid_mime_type(trigger)
       IN /\ calls' = Append(calls, post)
          /\ IF ~postOk
             THEN /\ Return("SlackPostError")
                  /\ UNCHANGED <<posted, ss>>
             ELSE /\ posted' = TRUE
                  /\ IF invalid
                     THEN /\ ss' = UpdateMessage(ss, INVALID_IMAGE_FORMAT, now, "notice", editOk)
                          /\ Return(IF editOk THEN "Ok" ELSE "SlackUpdateError")
                     ELSE /\ pc' = "complete"
                          /\ UNCHANGED <<outcome, ss>>
  /\ UNCHANGED <<delivery, response, variant, event, env, contexts, request, stream, rest, nchunks,
                 now, errored, doneSeen, bot, fn, ret>>

\* Variant of ResponseNotice that has one message for every status.
ResponseNoticeGeneric(res) == ERROR_FROM_OPEN_AI_MESSAGE

\* The message get_chat_gpt_response edits into the placeholder for a
\* response whose status is not 200.
ResponseNotice(res) ==
  IF res.status = 429 THEN USAGE_LIMIT_MESSAGE
  ELSE IF res.status = 400 /\ res.body = <<"invalid_image_format">>
  THEN INVALID_IMAGE_FORMAT
  ELSE ERROR_FROM_OPEN_AI_MESSAGE

\* The ApiClientError get_chat_gpt_response returns after that edit.
ResponseError(res) ==
  IF res.status = 429 THEN "OpenaiUsageLimit" ELSE "OpenaiError"

\* ApiClient::get_chat_gpt_response and the creation of the loop's locals.
GetChatGptResponse(bodies) ==
  /\ pc = "complete"
  /\ \E res \in bodies, editOk \in BOOLEAN :
       LET Edit(t) == UpdateMessage(ss, t, now, "notice", editOk)
           Failed(s1, kind) ==
             /\ ss' = s1
             /\ Return(IF s1.err # "" THEN s1.err ELSE kind)
             /\ UNCHANGED <<stream, rest>>
       IN /\ calls' = Append(calls, [op |-> "chat_completions", n |-> Len(request),
                                 status |-> res.status,
                                 body |-> IF res.status = 200 THEN <<>>
                                          ELSE res.body])
          /\ CASE res.status = 0 -> Failed(ss, "Reqwest")
               [] res.status = 200 ->
                    /\ stream' = res.body
                    /\ rest' = res.body
                    /\ ss' = [InitStream(now) EXCEPT !.edits = ss.edits]
                    /\ pc' = "stream"
                    /\ outcome' = outcome
               [] res.status = 400 /\ res.body = <<"read_error">> ->
                    Failed(ss, "Reqwest")
               [] OTHER ->
                    Failed(Edit(ResponseNotice(res)), ResponseError(res))
  /\ UNCHANGED <<delivery, response, variant, event, env, posted, contexts, request, nchunks, now,
                 errored, doneSeen, bot, fn, ret>>

\* stream.next() yields Ok(chunk): the next k bytes, d milliseconds later.
\* The first chunk's length is one of firstCuts.
RecvChunk(delays, maxChunks, firstCuts) ==
  /\ pc = "stream"
  /\ rest # <<>>
  /\ nchunks < maxChunks
  /\ \E k \in 1..Len(rest), d \in delays, editOk \in BOOLEAN :
       /\ nchunks = maxChunks - 1 => k = Len(rest)
       /\ nchunks = 0 => k \in firstCuts
       /\ LET t == now + d
              s1 == IF variant = "module"
                    THEN ModuleChunk(ss, Take(rest, k), t, editOk)
                    ELSE InlineChunk(ss, Take(rest, k), t, editOk)
          IN /\ now' = t
             /\ ss' = s1
             /\ rest' = Drop(rest, k)
             /\ nchunks' = nchunks + 1
             /\ doneSeen' = (doneSeen \/ s1.brk)
             /\ IF s1.err # ""
                THEN Return(s1.err)
                ELSE UNCHANGED <<pc, outcome>>
  /\ UNCHANGED <<delivery, response, variant, event, env, calls, posted, contexts, request, stream,
                 errored, bot, fn, ret>>

\* stream.next() yields Err(e).  The transport may or may not deliver the
\* rest of the body to a loop that polls again.
RecvErr ==
  /\ pc = "stream"
  /\ ~errored
  /\ errored' = TRUE
  /\ IF variant = "module"
     THEN /\ Return("ReadingStream")
          /\ UNCHANGED rest
     ELSE /\ \E lost \in BOOLEAN : rest' = IF lost THEN <<>> ELSE rest
          /\ UNCHANGED <<pc, outcome>>
  /\ UNCHANGED <<delivery, response, variant, event, env, calls, posted, contexts, request, stream,
                 nchunks, now, ss, doneSeen, bot, fn, ret>>

\* stream.next() yields None: the statements after the loop.
EndOfStream ==
  /\ pc = "stream"
  /\ rest = <<>>
  /\ \E editOk \in BOOLEAN :
       LET s1 == IF variant = "module"
                 THEN ModuleFinal(ss, now, editOk)
                 ELSE InlineFinal(ss, now, editOk)
       IN /\ ss' = s1
          /\ Return(IF s1.err # "" THEN s1.err ELSE "Ok")
  /\ UNCHANGED <<delivery, response, variant, event, env, calls, posted, contexts, request, stream,
                 rest, nchunks, now, errored, doneSeen, bot, fn, ret>>

\* ------------------------------------------------------------------------
\* Specifications
\* ------------------------------------------------------------------------

NoStream ==
  /\ stream = <<>>
  /\ rest = <<>>
  /\ nchunks = 0
  /\ now = 0
  /\ ss = InitStream(0)
  /\ errored = FALSE
  /\ doneSeen = FALSE

NoCall ==
  /\ fn = ""
  /\ ret = None

\* handle_request has passed the delivery on to handle_slack_event.
Delivered ==
  /\ delivery = SignedEvent
  /\ response = ""

\* One cycle, from the delivery of the event.
Init ==
  /\ variant \in {"inline", "module"}
  /\ delivery \in Deliveries
  /\ response = ""
  /\ event \in (IF delivery.body = "event" THEN Events ELSE {NoEvent})
  /\ env \in Envs
  /\ pc = "delivery"
  /\ outcome = ""
  /\ calls = <<>>
  /\ posted = FALSE
  /\ contexts = <<>>
  /\ request = <<>>
  /\ NoStream
  /\ bot = BotId
  /\ NoCall

Next ==
  \/ HandleRequest
  \/ HandleSlackEvent
  \/ CreateRequestBody
  \/ PostPlaceholder
  \/ GetChatGptResponse(Responses)
  \/ RecvChunk(CycleDelays, MaxCycleChunks, AnyCut)
  \/ RecvErr
  \/ EndOfStream
  \/ Respond

Spec == Init /\ [][Next]_vars

\* The stream loop alone: the cycle of a direct message at the point where
\* the endpoint has answered 200 and the loop's locals have been created.
InitStreamLoop ==
  /\ variant \in {"inline", "module"}
  /\ event = [type_name |-> "event_callback", event |-> BaseMessage]
  /\ env \in Envs
  /\ pc = "stream"
  /\ outcome = ""
  /\ contexts = <<BaseMessage>>
  /\ request = RequestMessages(<<BaseMessage>>, BaseMessage, BotId, {})
  /\ calls = <<[op |-> "get_history", limit |-> 2],
               [op |-> "post_message", text |-> LOADING_EMOJI,
                thread_ts |-> None, ok |-> TRUE],
               [op |-> "chat_completions", n |-> 2, status |-> 200,
                body |-> <<>>]>>
  /\ posted = TRUE
  /\ stream \in Streams
  /\ rest = stream
  /\ nchunks = 0
  /\ now = 0
  /\ ss = InitStream(0)
  /\ errored = FALSE
  /\ doneSeen = FALSE
  /\ bot = BotId
  /\ NoCall
  /\ Delivered

NextStreamLoop ==
  \/ RecvChunk(Delays, MaxChunks, AnyCut)
  \/ RecvErr
  \/ EndOfStream

SpecStream == InitStreamLoop /\ [][NextStreamLoop]_vars

\* The message classifier alone: one of its functions applied to a message
\* drawn from the fields' values.
\* The texts of the messages the functions are applied to.
MentionPrefix == <<"<@", "B", ">", " ">>
OtherMention == <<"<@", "U2", ">", " ">>
Directive == <<"past", "1">>
OverflowDigits == <<"2", "1", "4", "7", "4", "8", "3", "6", "4", "8">>

\* What may follow the mention and the directive.
Remainders ==
  { <<"h", "i">>,
    <<"h", " ", "i", " ">>,
    <<" ", "h", "i">>,
    <<"h", " ">> \o OtherMention \o <<"i">> }

MessageTexts ==
  { <<"h", "i">>,
    MentionPrefix \o <<"h", "i">>,
    OtherMention \o <<"h", "i">>,
    <<"past", "0", "h", "i">>,
    <<"past", "1", "h", "i">>,
    <<"past", "1", "0", LF, "h", "i", "past", "0">>,
    <<"past", "0", " ">> \o OtherMention \o <<"h", "i">>,
    <<"past">> \o OverflowDigits \o <<"h", "i">>,
    <<"past", "d3", "h", "i">>,
    (MentionPrefix \o OtherMention)
      \o <<"past", "1", "0", "h", "i", "past", "3">>,
    (MentionPrefix \o OtherMention)
      \o <<"o1", " ", "past", "1", "0", "h", "i", "past", "3">>,
    <<"o1", " ", "past", "1", "h", "i">> }
  \cup { MentionPrefix \o Directive \o r : r \in Remainders }

MessageInputs ==
  { [BaseMessage EXCEPT !.type_name = ty, !.subtype = sub, !.user = u,
                        !.thread_ts = th, !.channel_type = ct, !.text = tx] :
      ty \in {"message", "reaction_added"},
      sub \in {None, Some("file_share"), Some("message_changed"), Some("bot_message")},
      u \in {"B", "U1"},
      th \in {None, Some(<<"3">>)},
      ct \in {Some("im"), Some("channel")},
      tx \in MessageTexts }

\* default_past_num and max_past_num the functions are applied with.
ClassifierEnvs ==
  { [default_past_num |-> 0, max_past_num |-> 2],
    [default_past_num |-> 1, max_past_num |-> 2] }
LimitDefaults == {0, 1, 5}
LimitMaxPasts == {0, 2, 10}

InitClassifier ==
  /\ variant = "module"
  /\ event \in { [type_name |-> "event_callback", event |-> m] : m \in MessageInputs }
  /\ env \in ClassifierEnvs
  /\ pc = "event"
  /\ outcome = ""
  /\ calls = <<>>
  /\ posted = FALSE
  /\ contexts = <<>>
  /\ request = <<>>
  /\ NoStream
  /\ bot \in {"B", "U1"}
  /\ NoCall
  /\ Delivered

Apply(name, value) ==
  /\ fn = ""
  /\ fn' = name
  /\ ret' = value
  /\ UNCHANGED <<delivery, response, variant, event, env, pc, outcome, calls, posted, contexts,
                 request, stream, rest, nchunks, now, ss, errored, doneSeen, bot>>

ApplyReplyRequired == Apply("reply_required", reply_required(trigger, bot))

\* fetch_contexts against a fetcher whose answer is `fetched`.
ApplyFetchContexts ==
  \E fetched \in FetchOutcomes(trigger) :
    Apply("fetch_contexts",
          [fetched |-> fetched,
           result |-> fetch_contexts(trigger, bot, env, fetched)])

\* A second run of fetch_contexts against the same fetcher.
ApplyFetchContextsAgain ==
  /\ fn = "fetch_contexts"
  /\ fn' = "fetch_contexts_twice"
  /\ ret' = [fetched |-> ret.fetched,
             result |-> ret.result,
             second |-> fetch_contexts(trigger, bot, env, ret.fetched)]
  /\ UNCHANGED <<delivery, response, variant, event, env, pc, outcome, calls, posted, contexts,
                 request, stream, rest, nchunks, now, ss, errored, doneSeen, bot>>

ApplyGetLimit ==
  \E d \in LimitDefaults, mp \in LimitMaxPasts :
    Apply("get_limit",
          [default |-> d, max_past |-> mp, value |-> get_limit(trigger, d, mp)])

ApplyPureText == Apply("pure_text", pure_text(trigger))

\* get_limit and pure_text of the same message, as fetch_contexts and the
\* query builder call them.
ApplyLimitAndText ==
  \E d \in LimitDefaults, mp \in LimitMaxPasts :
    Apply("get_limit, pure_text",
          [default |-> d, max_past |-> mp, limit |-> get_limit(trigger, d, mp),
           text |-> pure_text(trigger)])

NextClassifier ==
  \/ ApplyReplyRequired
  \/ ApplyFetchContexts
  \/ ApplyFetchContextsAgain
  \/ ApplyGetLimit
  \/ ApplyPureText
  \/ ApplyLimitAndText

SpecClassifier == InitClassifier /\ [][NextClassifier]_vars

\* The scenario of the two fragments "Hel" and "lo": the body HelloStream
\* delivered in two chunks, the cut inside the second frame, every read Ok.
InitHello ==
  /\ InitStreamLoop
  /\ stream = HelloStream

NextHello ==
  \/ RecvChunk(Delays, 2, HelloCuts)
  \/ EndOfStream

SpecHello == InitHello /\ [][NextHello]_vars

\* The query builder alone: delete_old_files, order_by_ts and the request
\* messages, applied to the context sets a fetcher may answer.
QueryTriggers ==
  { BaseMessage,
    [BaseMessage EXCEPT !.subtype = Some("file_share"), !.files = Some(<<Png>>)],
    [BaseMessage EXCEPT !.subtype = Some("file_share"), !.files = Some(<<Png, Pdf>>)],
    InChannel([BaseMessage EXCEPT !.text = MentionPrefix \o Directive \o <<"h", "i">>,
                                  !.subtype = Some("file_share"),
                                  !.files = Some(<<Pdf, Png>>)]) }

\* The non-empty sequences without repetition of the trigger, a reply of
\* the bot and an older upload.
QueryContexts(t) ==
  LET pool == {t, BotReply, OldUpload}
  IN { q \in UNION { [1..n -> pool] : n \in 1..3 } :
         \A i, j \in DOMAIN q : i # j => q[i] # q[j] }

InitQuery ==
  /\ variant = "module"
  /\ event \in { [type_name |-> "event_callback", event |-> t] : t \in QueryTriggers }
  /\ env \in Envs
  /\ pc = "request"
  /\ outcome = ""
  /\ calls = <<>>
  /\ posted = FALSE
  /\ contexts = <<>>
  /\ request = <<>>
  /\ NoStream
  /\ bot = BotId
  /\ NoCall
  /\ Delivered

ApplyDeleteOldFiles ==
  \E ctx \in QueryContexts(trigger) :
    Apply("delete_old_files",
          [input |-> ctx, output |-> delete_old_files(ctx, trigger.ts)])

ApplyOrderByTs ==
  \E ctx \in QueryContexts(trigger) :
    Apply("order_by_ts", [input |-> ctx, output |-> order_by_ts(ctx)])

ApplyRequestMessages ==
  \E ctx \in QueryContexts(trigger), failing \in SUBSET Urls :
    Apply("create_request_body_for_chat_gpt",
          [input |-> ctx, failing |-> failing,
           output |-> RequestMessages(ctx, trigger, bot, failing)])

NextQuery ==
  \/ ApplyDeleteOldFiles
  \/ ApplyOrderByTs
  \/ ApplyRequestMessages

SpecQuery == InitQuery /\ [][NextQuery]_vars

\* ApiClient::update_message alone: calls with an empty and with a
\* non-empty text on a posted placeholder, accepted by Slack or not.
EditTexts == { <<>>, <<"H">>, <<"H", "i">>, ERROR_FROM_OPEN_AI_MESSAGE }

InitApiClient ==
  /\ variant = "module"
  /\ event = [type_name |-> "event_callback", event |-> BaseMessage]
  /\ env \in Envs
  /\ pc = "complete"
  /\ outcome = ""
  /\ calls = <<[op |-> "get_history", limit |-> 2],
               [op |-> "post_message", text |-> LOADING_EMOJI,
                thread_ts |-> None, ok |-> TRUE]>>
  /\ posted = TRUE
  /\ contexts = <<BaseMessage>>
  /\ request = RequestMessages(<<BaseMessage>>, BaseMessage, BotId, {})
  /\ NoStream
  /\ bot = BotId
  /\ NoCall
  /\ Delivered

\* One call of update_message; ret keeps its text, the edits before it
\* and its result.
ApplyUpdateMessage ==
  /\ Len(ss.edits) < MaxEdits
  /\ \E t \in EditTexts, ok \in BOOLEAN :
       LET s1 == UpdateMessage([ss EXCEPT !.err = ""], t, now, "notice", ok)
       IN /\ ss' = s1
          /\ fn' = "update_message"
          /\ ret' = [text |-> t, before |-> ss.edits,
                     result |-> IF s1.err = "" THEN "Ok" ELSE s1.err]
  /\ UNCHANGED <<delivery, response, variant, event, env, pc, outcome, calls,
                 posted, contexts, request, stream, rest, nchunks, now,
                 errored, doneSeen, bot>>

NextApiClient == ApplyUpdateMessage

SpecApiClient == InitApiClient /\ [][NextApiClient]_vars

\* ------------------------------------------------------------------------
\* Properties
\* ------------------------------------------------------------------------

IsThrottled(e) == e.kind = "throttled"
IsFinal(e) == e.kind = "final"
ThrottledEdits(edits) == SelectSeq(edits, IsThrottled)
FinalEdits(edits) == SelectSeq(edits, IsFinal)
AllEditsOk == \A i \in 1..Len(ss.edits) : ss.edits[i].ok

\* The stream ended with stream.next() yielding None, and the statements
\* after the loop ran.
EndedNormally ==
  /\ pc = "done"
  /\ outcome # "ReadingStream"
  /\ ss.edits # <<>> =>
       ss.edits[Len(ss.edits)].ok \/ ss.edits[Len(ss.edits)].kind # "throttled"

\* C1: reply_required(m, b) is true exactly when m's type is "message", m
\* has no subtype or the subtype file_share, and m's sender is not b; it is
\* false whenever is_from(m, b) holds.
C1_ReplyRequiredExact ==
  fn = "reply_required" =>
    /\ ret = (/\ trigger.type_name = "message"
              /\ trigger.subtype \in {None, Some("file_share")}
              /\ trigger.user # bot)
    /\ is_from(trigger, bot) => ret = FALSE

C1_OwnMessageRefused ==
  /\ fn = "reply_required"
  /\ trigger.type_name = "message"
  /\ trigger.subtype = None
  /\ trigger.user = bot
  /\ ret = FALSE

\* The event is a callback whose message fails one of the three conditions
\* of the gate.
C2_GateFails ==
  /\ event.type_name = "event_callback"
  /\ \/ trigger.type_name # "message"
     \/ trigger.subtype \notin {None, Some("file_share")}
     \/ trigger.user = bot

\* C2: a cycle whose event fails the gate ends with no fetch, download,
\* post, edit or completion call, and with the outcome Ok.
C2_GateFailsNoSideEffect ==
  (pc = "done" /\ C2_GateFails) =>
    /\ calls = <<>>
    /\ ss.edits = <<>>
    /\ ~posted
    /\ outcome = "Ok"

C2_EditedMessageIgnored ==
  /\ pc = "done"
  /\ trigger.type_name = "message"
  /\ trigger.subtype = Some("message_changed")
  /\ trigger.user # bot
  /\ event.type_name = "event_callback"
  /\ calls = <<>>
  /\ outcome = "Ok"

\* The text the loop of variant v accumulates when the whole body arrives
\* as one chunk.
C3_OneChunkText(v, body) ==
  IF v = "module"
  THEN ModuleChunk(InitStream(0), body, 1, TRUE).text
  ELSE InlineChunk(InitStream(0), body, 1, TRUE).text

\* C3: for a well-formed body read without error, the text accumulated at
\* the end of the stream is the same for every cutting of the body into
\* chunks: it is the text of the delivery in one chunk.
C3_ChunkInvariant ==
  (EndedNormally /\ ~errored /\ stream \in WellFormedStreams) =>
    ss.text = C3_OneChunkText(variant, stream)

\* C4: once the placeholder is posted, the cycle ends with the placeholder
\* showing a final text, the full accumulated text or a fixed notice, from
\* an edit that Slack accepted; here for the cycles in which every edit that
\* was issued succeeded.
C4_PlaceholderFinal ==
  (pc = "done" /\ posted /\ AllEditsOk) =>
    /\ ss.edits # <<>>
    /\ \/ ss.edits[Len(ss.edits)].kind = "notice"
       \/ ss.edits[Len(ss.edits)].text = ss.text

\* C5: a throttled edit is issued only when the text differs from the text
\* of the edit issued before it and at least ThrottleMs milliseconds have
\* passed since that edit, so that two consecutive throttled edits are at
\* least ThrottleMs apart and carry different texts.
C5_ThrottleSpacing ==
  \A i \in 2..Len(ss.edits) :
    ss.edits[i].kind = "throttled" =>
      /\ ss.edits[i].at - ss.edits[i - 1].at >= ThrottleMs
      /\ ss.edits[i].text # ss.edits[i - 1].text

\* The text of the last throttled edit, empty when there was none.
C6_LastPosted ==
  LET thr == ThrottledEdits(ss.edits)
  IN IF thr = <<>> THEN <<>> ELSE thr[Len(thr)].text

\* C6: at the end of a stream with a non-empty text, exactly one final edit
\* with the full text is issued when the text differs from the last posted
\* text, and none when it equals it.
C6_FinalEditIffUnposted ==
  (EndedNormally /\ ss.text # <<>> /\ AllEditsOk) =>
    IF ss.text # C6_LastPosted
    THEN /\ Len(FinalEdits(ss.edits)) = 1
         /\ FinalEdits(ss.edits)[1].text = ss.text
    ELSE FinalEdits(ss.edits) = <<>>

C7_Ended == EndedNormally /\ nchunks = 2 /\ AllEditsOk

C8_EmptyTextNotice ==
  (EndedNormally /\ ss.text = <<>>) =>
    /\ ss.edits # <<>>
    /\ ss.edits[Len(ss.edits)].text = ERROR_FROM_OPEN_AI_MESSAGE
    /\ ss.edits[Len(ss.edits)].kind = "notice"
    /\ ss.edits[Len(ss.edits)].ok => PlaceholderText = ERROR_FROM_OPEN_AI_MESSAGE

C8_EmptyCompletionNoticed ==
  /\ EndedNormally
  /\ stream = EmptyStream
  /\ ss.text = <<>>
  /\ PlaceholderText = ERROR_FROM_OPEN_AI_MESSAGE

\* C9: after the end marker has been processed, no step changes the text or
\* issues a throttled edit.
C9_DoneTerminal ==
  [][doneSeen => /\ ss'.text = ss.text
                 /\ ThrottledEdits(ss'.edits) = ThrottledEdits(ss.edits)]_vars

\* C10: a read error ends the processing at once with the outcome
\* ReadingStream: no later chunk is consumed and no edit follows.
C10_ReadErrorEnds ==
  errored => (pc = "done" /\ outcome = "ReadingStream")

\* The limit fetch_contexts computes for the trigger.
ResolverLimit == get_limit(trigger, env.default_past_num, env.max_past_num)
MentionsBot == Contains(trigger.text, bot)
MentionsSomeone == Contains(trigger.text, "<@")
IsDirect == trigger.channel_type = Some("im")
InThread == trigger.thread_ts # None
OnlyTrigger == [calls |-> <<>>, ok |-> TRUE, contexts |-> <<trigger>>]
NothingOwed == [calls |-> <<>>, ok |-> TRUE, contexts |-> <<>>]

\* C11: whatever the trigger's channel kind, thread and mentions, a limit
\* below 2 makes fetch_contexts return the trigger alone without a fetch.
C11_LimitOneTriggerOnly ==
  (fn = "fetch_contexts" /\ ResolverLimit < 2) => ret.result = OnlyTrigger

C11_DirectNoThreadLimitOne ==
  /\ fn = "fetch_contexts"
  /\ IsDirect
  /\ ~InThread
  /\ ResolverLimit = 1
  /\ ret.result = OnlyTrigger

\* The cycle never posts the placeholder nor calls the completion endpoint.
C12_NoPlaceholderNoCompletion ==
  /\ ~posted
  /\ \A i \in 1..Len(calls) :
       /\ calls[i].op # "chat_completions"
       /\ calls[i].op = "post_message" => calls[i].text # LOADING_EMOJI

C12_ChannelNoThreadNoMention == ~IsDirect /\ ~InThread /\ ~MentionsBot

C13_ThreadMentionOfOther ==
  /\ fn = "fetch_contexts"
  /\ ~IsDirect
  /\ InThread
  /\ MentionsSomeone
  /\ ~MentionsBot

\* C13 as stated: a channel trigger in a thread that mentions a user other
\* than the bot gets the empty set, and no fetch is issued.
C13_OtherMentionEmpty ==
  C13_ThreadMentionOfOther => ret.result = NothingOwed

\* C13 amended: no fetch is issued; the result is the empty set when the
\* limit is at least 2, and the trigger alone when it is below 2.
C13_OtherMentionNoFetch ==
  C13_ThreadMentionOfOther =>
    ret.result = IF ResolverLimit >= 2 THEN NothingOwed ELSE OnlyTrigger

C13_OtherMentionLimitTwo ==
  /\ C13_ThreadMentionOfOther
  /\ ResolverLimit >= 2
  /\ ret.result = NothingOwed

C14_ThreadNotForOther ==
  /\ fn = "fetch_contexts"
  /\ ~IsDirect
  /\ InThread
  /\ ~(MentionsSomeone /\ ~MentionsBot)
  /\ ResolverLimit >= 2
  /\ ret.fetched.ok

C14_BotInThread ==
  \E i \in 1..Len(ret.fetched.messages) : ret.fetched.messages[i].user = bot

\* C14: for a channel trigger in a thread that is not a mention of another
\* user, with a limit of at least 2, fetch_contexts returns the fetched
\* replies when the trigger mentions the bot or a fetched message is the
\* bot's, and the empty set otherwise.
C14_ThreadRepliesIfBotInvolved ==
  C14_ThreadNotForOther =>
    /\ ret.result.ok
    /\ ret.result.contexts =
         IF MentionsBot \/ C14_BotInThread THEN ret.fetched.messages ELSE <<>>

C14_BotSpokeNoMention ==
  /\ C14_ThreadNotForOther
  /\ ~MentionsBot
  /\ C14_BotInThread
  /\ trigger.user # bot
  /\ ret.result.contexts = ret.fetched.messages

\* C15: for a direct message with a limit of at least 2, fetch_contexts
\* issues exactly one fetch with that limit, get_replies in a thread and
\* get_history outside, and returns what was fetched unchanged, whatever
\* the mentions.
C15_DirectOneFetch ==
  (fn = "fetch_contexts" /\ IsDirect /\ ResolverLimit >= 2) =>
    /\ ret.result.calls =
         <<[op |-> IF InThread THEN "get_replies" ELSE "get_history",
            limit |-> ResolverLimit]>>
    /\ ret.fetched.ok =>
         (ret.result.ok /\ ret.result.contexts = ret.fetched.messages)

C15_DirectThreadOtherMention ==
  /\ fn = "fetch_contexts"
  /\ IsDirect
  /\ InThread
  /\ MentionsSomeone
  /\ ~MentionsBot
  /\ ResolverLimit >= 2
  /\ ret.fetched.ok
  /\ ret.result.contexts = ret.fetched.messages
  /\ ret.result.calls[1].op = "get_replies"

C17_ResolvedEmpty ==
  \E i \in 1..Len(calls) :
    /\ calls[i].op = "post_message"
    /\ calls[i].text = NO_CONTEXTS_MESSAGE
    /\ calls[i].ok

\* C17: a cycle whose contexts are empty ends with a success result.
C17_EmptyIsSuccess ==
  (pc = "done" /\ C17_ResolvedEmpty) => outcome = "Ok"

Clamp(n, lo, hi) == IF n < lo THEN lo ELSE IF n > hi THEN hi ELSE n

C18_Parsed ==
  /\ fn = "get_limit"
  /\ PastCapture(trigger.text) # <<>>
  /\ ParseOk(PastCapture(trigger.text))

\* C18: when the digits of the leading directive parse to N, get_limit
\* returns clamp(N, 0, max_past) + 1, whatever the default and whatever
\* follows the directive.
C18_ParsedClamped ==
  C18_Parsed =>
    /\ ret.value = Clamp(DecimalValue(PastCapture(trigger.text)), 0, ret.max_past) + 1
    /\ ret.value - 1 \in 0..ret.max_past

C18_TenOfTen ==
  /\ C18_Parsed
  /\ trigger.text = <<"past", "1", "0", LF, "h", "i", "past", "0">>
  /\ ret.default = 5
  /\ ret.max_past = 10
  /\ ret.value = 11

\* C19: when the digits of the directive do not parse, get_limit returns
\* clamp(default, 0, max_past) + 1.
C19_FallbackClamped ==
  (/\ fn = "get_limit"
   /\ PastCapture(trigger.text) # <<>>
   /\ ~ParseOk(PastCapture(trigger.text))) =>
    ret.value = Clamp(ret.default, 0, ret.max_past) + 1

\* C20: of a text made of the mention prefix, the directive and a
\* remainder, pure_text returns the remainder unchanged.
C20_RemainderVerbatim ==
  fn = "pure_text" =>
    \A r \in Remainders :
      trigger.text = (MentionPrefix \o Directive) \o r => ret = r

\* The length of the run of leading mention tokens, each a bracketed token
\* followed by a space.
RECURSIVE LeadingMentions(_)
LeadingMentions(text) ==
  IF Len(text) >= 4 /\ text[1] = "<@" /\ text[3] = ">" /\ text[4] = " "
  THEN 4 + LeadingMentions(Drop(text, 4))
  ELSE 0

\* A text without its leading mentions, its leading o1 marker and one
\* leading directive.
LeadingStripped(text) ==
  LET r1 == Drop(text, LeadingMentions(text))
      r2 == Trim(IF r1 # <<>> /\ r1[1] = "o1" THEN Tail(r1) ELSE r1)
      d == PastCapture(r2)
  IN Drop(r2, IF d = <<>> THEN 0 ELSE 1 + Len(d))

\* C21: pure_text removes, from the start of the text only, the run of
\* leading mention tokens, then a leading o1 marker with the whitespace
\* around it, then one leading past<digits> directive; what follows,
\* a later past<digits> or a later bracketed token included, is kept.
C21_LeadingOnly ==
  fn = "pure_text" => ret = LeadingStripped(trigger.text)

\* The thread id new_message_thread_ts owes to a message.
OwedThread(m) ==
  IF m.thread_ts # None THEN m.thread_ts
  ELSE IF m.channel_type = Some("im") THEN None
  ELSE Some(m.ts)

\* C22: every message the cycle posts, the placeholder and the no-context
\* notice, carries the thread id of the trigger if it is in a thread,
\* none if it is a direct message outside a thread, and the trigger's own
\* timestamp otherwise.
C22_PostsInOwedThread ==
  \A i \in DOMAIN calls :
    calls[i].op = "post_message" => calls[i].thread_ts = OwedThread(trigger)

\* A placeholder posted for a channel message outside a thread starts a
\* thread under that message.
C22_ChannelPlaceholderStartsThread ==
  /\ trigger.thread_ts = None
  /\ trigger.channel_type = Some("channel")
  /\ \E i \in DOMAIN calls :
       /\ calls[i].op = "post_message"
       /\ calls[i].text = LOADING_EMOJI
       /\ calls[i].thread_ts = Some(trigger.ts)

\* C23: delete_old_files keeps the number and the order of the messages
\* and every field but the attachments; a message whose timestamp is not
\* the trigger's has no attachments afterwards, the one whose timestamp is
\* the trigger's keeps its list.
C23_OnlyTriggerKeepsFiles ==
  fn = "delete_old_files" =>
    /\ Len(ret.output) = Len(ret.input)
    /\ \A i \in DOMAIN ret.input :
         ret.output[i] =
           [ret.input[i] EXCEPT !.files = IF ret.input[i].ts = trigger.ts
                                          THEN ret.input[i].files
                                          ELSE None]

\* An older upload loses its attachment while the trigger keeps its two.
C23_OldUploadCleared ==
  /\ fn = "delete_old_files"
  /\ \E i, j \in DOMAIN ret.input :
       /\ ret.input[i].ts # trigger.ts
       /\ IsSome(ret.input[i].files)
       /\ ret.output[i].files = None
       /\ ret.input[j].ts = trigger.ts
       /\ IsSome(ret.input[j].files)
       /\ Len(ret.output[j].files[1]) = 2

\* C24: the request has exactly one system unit, the first; every other
\* unit is an assistant unit if its message was sent by the bot and a
\* user unit otherwise.
C24_SystemFirstRolesBySender ==
  request # <<>> =>
    /\ request[1].role = "system"
    /\ \A i \in 2..Len(request) :
         \E j \in DOMAIN contexts :
           /\ contexts[j].ts = request[i].ts
           /\ request[i].role = IF contexts[j].user = bot THEN "assistant"
                                ELSE "user"

\* A query with a unit of the bot and a unit of a user is sent.
C24_AssistantAndUserSent ==
  /\ \E i \in DOMAIN calls : calls[i].op = "chat_completions"
  /\ \E i, j \in 2..Len(request) :
       request[i].role = "assistant" /\ request[j].role = "user"

\* C25: whatever the order of the fetched messages, the units after the
\* system unit are in ascending numeric order of timestamp, one unit per
\* context message.
C25_UnitsAscending ==
  fn = "create_request_body_for_chat_gpt" =>
    /\ Len(ret.output) = Len(ret.input) + 1
    /\ \A j \in DOMAIN ret.input :
         \E i \in 2..Len(ret.output) : ret.output[i].ts = ret.input[j].ts
    /\ \A i, j \in 2..Len(ret.output) :
         i < j => DecimalValue(ret.output[i].ts) <= DecimalValue(ret.output[j].ts)

\* Messages fetched in the order 10, 9, 2 are sent in the order 2, 9, 10.
C25_TenNineTwo ==
  /\ fn = "create_request_body_for_chat_gpt"
  /\ Len(ret.input) = 3
  /\ ret.input[1].ts = <<"1", "0">>
  /\ ret.input[2].ts = <<"9">>
  /\ ret.input[3].ts = <<"2">>
  /\ ret.output[2].ts = <<"2">>
  /\ ret.output[3].ts = <<"9">>
  /\ ret.output[4].ts = <<"1", "0">>

\* C26: the unit of a message carrying k attachments has k + 1 parts, the
\* text part holding its pure_text and then one image part per attachment
\* in list order, whether or not each download succeeds.
C26_OnePartPerAttachment ==
  fn = "create_request_body_for_chat_gpt" =>
    \A i \in 2..Len(ret.output) :
      (ret.output[i].ts = trigger.ts /\ IsSome(trigger.files)) =>
        /\ ret.output[i].has_parts
        /\ ret.output[i].text = LeadingStripped(trigger.text)
        /\ ret.output[i].images = trigger.files[1]

\* C27: the completion endpoint is never called with fewer than two
\* units, and a cycle that posts the no-context notice does not call it.
C27_AtLeastTwoUnits ==
  \A i \in DOMAIN calls :
    /\ calls[i].op = "chat_completions" => calls[i].n >= 2
    /\ (calls[i].op = "post_message" /\ calls[i].text = NO_CONTEXTS_MESSAGE) =>
         \A j \in DOMAIN calls : calls[j].op # "chat_completions"

\* The endpoint is called with the system unit and the trigger's unit.
C27_CalledWithTwo ==
  \E i \in DOMAIN calls : calls[i].op = "chat_completions" /\ calls[i].n = 2

\* The cycle ended on a response of the completion endpoint with this
\* status and this body.
EndedOnResponse(status, body) ==
  /\ pc = "done"
  /\ calls # <<>>
  /\ calls[Len(calls)].op = "chat_completions"
  /\ calls[Len(calls)].status = status
  /\ calls[Len(calls)].body = body

C29_DedicatedKind ==
  (EndedOnResponse(400, <<"invalid_image_format">>) /\ AllEditsOk) =>
    outcome # "OpenaiError"

\* A fixed message of the bot reached the user: one was posted, or one was
\* edited into the placeholder.
FixedMessageShown ==
  \/ \E i \in DOMAIN calls :
       /\ calls[i].op = "post_message"
       /\ calls[i].ok
       /\ calls[i].text = NO_CONTEXTS_MESSAGE
  \/ /\ posted
     /\ PlaceholderText \in {ERROR_FROM_OPEN_AI_MESSAGE, USAGE_LIMIT_MESSAGE,
                             INVALID_IMAGE_FORMAT}

\* C30: a cycle that ends on a failure other than a missing channel, here
\* a failed history or replies fetch during the resolution of the
\* contexts, ends with a fixed message posted to the channel or edited
\* into the placeholder.
C30_FailureAnnounced ==
  (pc = "done" /\ outcome = "StatusError") => FixedMessageShown

\* No fetch, no post, no download, no completion call and no edit.
NoPlatformCall ==
  /\ calls = <<>>
  /\ ~posted
  /\ ss.edits = <<>>

\* handle_slack_event was not entered.
NoCycleStarted ==
  /\ pc \in {"delivery", "returned"}
  /\ outcome = ""
  /\ NoPlatformCall

\* C31: a trigger without a channel, and a body that does not deserialize,
\* abort the cycle with no post, no edit, no fetch and no completion call;
\* for the body, handle_slack_event is not entered.
C31_AbortWithoutCalls ==
  /\ trigger.channel = None => NoPlatformCall
  /\ delivery.body = "garbage" => NoCycleStarted

\* The cycle of a trigger without a channel has ended, and the delivery
\* was answered.
C31_MissingChannelAnswered ==
  /\ pc = "returned"
  /\ delivery = SignedEvent
  /\ event.type_name = "event_callback"
  /\ trigger.channel = None
  /\ trigger.type_name = "message"
  /\ trigger.user # bot
  /\ outcome = "Ok"
  /\ response = "OK"
  /\ NoPlatformCall

\* The signature header is present and is not the one expected for the
\* timestamp and the body.
SignatureRejected ==
  /\ delivery.signature # None
  /\ delivery.signature[1] # <<"v0=", SigningSecret, "v0:", delivery.timestamp,
                               ":", delivery.body>>

\* C38: a delivery whose signature does not validate starts no cycle and
\* is answered NG, whatever its retry header and its body; a delivery with
\* the right signature and the retry header starts no cycle and is
\* answered OK, whatever its body.
C38_RejectedBeforeCycle ==
  /\ SignatureRejected =>
       (NoCycleStarted /\ response \in {"", "NG"})
  /\ (delivery.signature # None /\ ~SignatureRejected /\ delivery.retry_num # None) =>
       (NoCycleStarted /\ response \in {"", "OK"})

\* A retried delivery of an event with a wrong signature was answered NG.
C38_BadSignatureOnRetry ==
  /\ pc = "returned"
  /\ SignatureRejected
  /\ delivery.retry_num # None
  /\ delivery.body = "event"
  /\ response = "NG"

\* C32: update_message with an empty text makes no call and returns Ok:
\* the edits of the placeholder are those before the call; and no edit
\* ever carries an empty text.
C32_EmptyEditNoCall ==
  /\ (fn = "update_message" /\ ret.text = <<>>) =>
       (ss.edits = ret.before /\ ret.result = "Ok")
  /\ \A i \in DOMAIN ss.edits : ss.edits[i].text # <<>>

\* An empty text was sent to a placeholder showing "Hi", which still
\* shows it.
C32_EmptyEditKeepsText ==
  /\ fn = "update_message"
  /\ ret.text = <<>>
  /\ ret.result = "Ok"
  /\ ret.before # <<>>
  /\ ss.edits = ret.before
  /\ PlaceholderText = <<"H", "i">>

\* An attachment of the trigger has a mime type outside the allow-list.
DisallowedAttachment ==
  /\ trigger.files # None
  /\ \E i \in DOMAIN trigger.files[1] :
       trigger.files[1][i].mimetype \notin VALID_MIME_TYPES

\* C33: when an attachment of the trigger has a mime type outside the
\* allow-list, the completion endpoint is never called, and once the
\* placeholder is posted it is edited once, with the unsupported-format
\* message, and the cycle has ended.
C33_DisallowedTypeEndsCycle ==
  DisallowedAttachment =>
    /\ \A i \in DOMAIN calls : calls[i].op # "chat_completions"
    /\ posted =>
         /\ pc \in {"done", "returned"}
         /\ Len(ss.edits) = 1
         /\ ss.edits[1].text = INVALID_IMAGE_FORMAT

\* A trigger with a PNG and a PDF ended with the placeholder showing the
\* unsupported-format message.
C33_PdfRefused ==
  /\ trigger.files = Some(<<Png, Pdf>>)
  /\ posted
  /\ outcome = "Ok"
  /\ PlaceholderText = INVALID_IMAGE_FORMAT
  /\ \A i \in DOMAIN calls : calls[i].op # "chat_completions"

\* C34: a chunk only appends to the accumulated text: the text before it
\* is a prefix of the text after it; and a chunk that leaves the text as
\* it was changes neither the last-posted text nor the time of the last
\* edit and issues no edit.
C34_AppendOnly ==
  [][nchunks' = nchunks + 1 =>
       /\ Len(ss.text) <= Len(ss'.text)
       /\ Take(ss'.text, Len(ss.text)) = ss.text
       /\ ss'.text = ss.text =>
            /\ ss'.last_post_text = ss.last_post_text
            /\ ss'.last_update = ss.last_update
            /\ ss'.edits = ss.edits]_vars

\* C35: after a well-formed stream has been consumed to its end without a
\* read error and without a failed edit, the string carry-over and the
\* byte carry-over are empty.
C35_CarryOverEmptied ==
  (/\ pc = "done"
   /\ stream \in WellFormedStreams
   /\ rest = <<>>
   /\ ~errored
   /\ ss.err = "") =>
    (ss.partial_str = <<>> /\ ss.partial_bytes = <<>>)

IsFetch(c) == c.op \in {"get_history", "get_replies"}
IsPlaceholderPost(c) == c.op = "post_message" /\ c.text = LOADING_EMOJI
IsCompletion(c) == c.op = "chat_completions"

DirectiveAfterLead(text) ==
  LET r1 == Drop(text, LeadingMentions(text))
  IN PastCapture(Trim(IF r1 # <<>> /\ r1[1] = "o1" THEN Tail(r1) ELSE r1))

\* C37: the directive pure_text strips is the directive get_limit reads:
\* when a directive that parses follows the leading mentions and the o1
\* marker, the limit is its clamped value plus one, and when none does,
\* the limit is the default plus one.
C37_SameDirective ==
  fn = "get_limit, pure_text" =>
    LET d == DirectiveAfterLead(trigger.text)
    IN /\ (d # <<>> /\ ParseOk(d)) =>
            ret.limit = Clamp(DecimalValue(d), 0, ret.max_past) + 1
       /\ d = <<>> => ret.limit = ret.default + 1

IsPrefix(a, b) == Len(a) <= Len(b) /\ Take(b, Len(a)) = a

\* C39: the text of every edit issued while the stream is read is a
\* prefix of the text of every later edit of the cycle and of the
\* accumulated text, and the last-posted text is a prefix of the
\* accumulated text.
C39_EditsArePrefixes ==
  /\ \A i \in DOMAIN ss.edits :
       ss.edits[i].kind = "throttled" =>
         /\ IsPrefix(ss.edits[i].text, ss.text)
         /\ \A j \in DOMAIN ss.edits :
              i < j => IsPrefix(ss.edits[i].text, ss.edits[j].text)
  /\ IsPrefix(ss.last_post_text, ss.text)

====
